---- MODULE Spec2Model ----
(***************************************************************************)
(* The IntelliSOC backend (JSON-file storage): the login, event and batch  *)
(* handlers, the IP-reputation update, and the read/write helpers they     *)
(* share.  Every `await` of a handler is a scheduling point: a handler is  *)
(* a sequence of steps, and the steps of the handlers in flight interleave.*)
(***************************************************************************)
EXTENDS Integers, Sequences, FiniteSets, TLC

VARIABLES
    disk,       \* file -> [data: the array stored, ok: the file parses]
    proc,       \* handler slot -> the request in it: position and locals
    arrivals,   \* requests accepted so far
    faults,     \* read/write errors injected so far
    lim,        \* the limits of this run (set by Init, never changed)
    clock       \* the time Date.now() gave last, in ticks

vars == <<disk, proc, arrivals, faults, lim, clock>>

----------------------------------------------------------------------------
(* Bounds of the model *)
MaxRequests == 2
MaxFaults == 1
MaxBatch == 2
BatchRunLen == 4
BatchRunRequests == 1
FailuresToFloor == 19
SuccessesToCeiling == 6
MaxFreshRequests == 2
MaxStatAttempts == 2
MaxStatsRequests == 1
MaxTicks == 2
NowHours == 200

(* Program constants *)
NoUserId == 0
InitialScoreSuccess == 95
InitialScoreFailure == 90
SuccessDelta == 1
FailurePenalty == 5
MaxScore == 100
MinScore == 0

Null == "null"
Undefined == "undefined"

USERS_FILE == "users.json"
SESSIONS_FILE == "sessions.json"
EVENT_LOGS_FILE == "event_logs.json"
LOGIN_ATTEMPTS_FILE == "login_attempts.json"
IP_REPUTATION_FILE == "ip_reputation.json"

Files == {USERS_FILE, SESSIONS_FILE, EVENT_LOGS_FILE, LOGIN_ATTEMPTS_FILE,
          IP_REPUTATION_FILE}

initialUsers ==
    << [user_id |-> 1, username |-> "admin", password |-> "admin123"],
       [user_id |-> 2, username |-> "user1", password |-> "password123"] >>

Handlers == {1, 2}

(* Inputs of the requests *)
Usernames == {"admin", "user1", "ghost", Undefined}
Passwords == {"admin123", "password123", Undefined}
FewUsernames == {"admin", "ghost", Undefined}
FewPasswords == {"admin123", "password123"}
Addresses == {"10.0.0.1", "10.0.0.2"}
SessionIds == {"s1", "s2"}
EventTypes == {"click"}

\* ?timeRange= of the statistics request: the three the handler knows, one it
\* does not know, or none
TimeRanges == {"1h", "24h", "7d", "30d", Undefined}

\* Times are in milliseconds since the epoch.  A timestamp is written with
\* toISOString() and read back with new Date(...): both keep the millisecond.
HourMs == 60 * 60 * 1000

\* Date.now() of the statistics request
Now == NowHours * HourMs

\* An element of a batch: a JSON null (destructuring it throws), or an object
\* (whose sessionId may be undefined).
EventInputs(sessionIds) ==
    {[isNull |-> TRUE, sessionId |-> Undefined, eventType |-> Undefined]}
    \cup {[isNull |-> FALSE, sessionId |-> s, eventType |-> t] :
             s \in sessionIds, t \in EventTypes}

RECURSIVE SeqsUpTo(_, _)
SeqsUpTo(S, n) ==
    IF n = 0 THEN {<<>>}
    ELSE LET shorter == SeqsUpTo(S, n - 1)
         IN  shorter \cup {Append(q, x) : q \in {p \in shorter : Len(p) = n - 1}, x \in S}

----------------------------------------------------------------------------
(* readJSON / writeJSON *)

\* A file that does not parse (ok = FALSE) keeps in `data` the array it held
\* last, for the properties; readJSON does not see it.

\* readJSON whose catch branch hands back what the file held last
ReadOutcomesStale(f) ==
    {[data |-> disk[f].data, fault |-> FALSE, failed |-> ~disk[f].ok,
      torn |-> FALSE]}
    \cup (IF faults < lim.faults
          THEN {[data |-> disk[f].data, fault |-> TRUE, failed |-> TRUE,
                 torn |-> FALSE]}
          ELSE {})

\* What readJSON can return now: the parsed array, or [] when the file does
\* not parse or the read fails (the catch branch, `failed`).  `torn`: the file
\* held records and the read found none of them, nor those being written.
ReadOutcomes(f) ==
    {[data |-> IF disk[f].ok THEN disk[f].data ELSE <<>>,
      fault |-> FALSE,
      failed |-> ~disk[f].ok,
      torn |-> ~disk[f].ok /\ disk[f].data # <<>>]}
    \cup (IF faults < lim.faults
          THEN {[data |-> <<>>, fault |-> TRUE, failed |-> TRUE, torn |-> FALSE]}
          ELSE {})

\* Landed that keeps what the file held in front of the data
LandedBehind(f, data) == [data |-> disk[f].data \o data, ok |-> TRUE]

\* The data of a write lands at offset 0 of the file as it is then.
\* When another writer's longer data landed after this writer's truncation,
\* its tail stays behind this data and the file no longer parses.
Landed(f, data) ==
    IF disk[f].ok /\ Len(disk[f].data) > Len(data)
    THEN [disk[f] EXCEPT !.ok = FALSE]
    ELSE [data |-> data, ok |-> TRUE]

----------------------------------------------------------------------------
(* updateIPReputation *)

\* ipReputations.findIndex(ip => ip.ip_address === ipAddress); 0 for -1
RECURSIVE FindIndexFrom(_, _, _)
FindIndexFrom(reps, ipAddress, i) ==
    IF i > Len(reps) THEN 0
    ELSE IF reps[i].ip_address = ipAddress THEN i
    ELSE FindIndexFrom(reps, ipAddress, i + 1)

findIndex(reps, ipAddress) == FindIndexFrom(reps, ipAddress, 1)

Min(a, b) == IF a < b THEN a ELSE b
Max(a, b) == IF a > b THEN a ELSE b

\* UpdateExistingIP with a failure not counted in suspicious_activities
UpdateExistingIPNoSuspicious(ip, result, now) ==
    IF result = "success"
    THEN [ip EXCEPT !.last_seen = now,
                    !.total_logins = @ + 1,
                    !.successful_logins = @ + 1,
                    !.reputation_score = Min(@ + SuccessDelta, MaxScore)]
    ELSE [ip EXCEPT !.last_seen = now,
                    !.total_logins = @ + 1,
                    !.failed_logins = @ + 1,
                    !.reputation_score = Max(@ - FailurePenalty, MinScore)]

\* UpdateExistingIP with a failure not counted in total_logins
UpdateExistingIPNoTotal(ip, result, now) ==
    IF result = "success"
    THEN [ip EXCEPT !.last_seen = now,
                    !.total_logins = @ + 1,
                    !.successful_logins = @ + 1,
                    !.reputation_score = Min(@ + SuccessDelta, MaxScore)]
    ELSE [ip EXCEPT !.last_seen = now,
                    !.failed_logins = @ + 1,
                    !.suspicious_activities = @ + 1,
                    !.reputation_score = Max(@ - FailurePenalty, MinScore)]

\* UpdateExistingIP without Math.min / Math.max
UpdateExistingIPNoClamp(ip, result, now) ==
    IF result = "success"
    THEN [ip EXCEPT !.last_seen = now,
                    !.total_logins = @ + 1,
                    !.successful_logins = @ + 1,
                    !.reputation_score = @ + SuccessDelta]
    ELSE [ip EXCEPT !.last_seen = now,
                    !.total_logins = @ + 1,
                    !.failed_logins = @ + 1,
                    !.suspicious_activities = @ + 1,
                    !.reputation_score = @ - FailurePenalty]

\* UpdateExistingIP that blocks the address whose score reaches the floor
UpdateExistingIPBlocking(ip, result, now) ==
    IF result = "success"
    THEN [ip EXCEPT !.last_seen = now,
                    !.total_logins = @ + 1,
                    !.successful_logins = @ + 1,
                    !.reputation_score = Min(@ + SuccessDelta, MaxScore)]
    ELSE [ip EXCEPT !.last_seen = now,
                    !.total_logins = @ + 1,
                    !.failed_logins = @ + 1,
                    !.suspicious_activities = @ + 1,
                    !.reputation_score = Max(@ - FailurePenalty, MinScore),
                    !.is_blocked = ip.reputation_score - FailurePenalty <= MinScore]

UpdateExistingIP(ip, result, now) ==
    IF result = "success"
    THEN [ip EXCEPT !.last_seen = now,
                    !.total_logins = @ + 1,
                    !.successful_logins = @ + 1,
                    !.reputation_score = Min(@ + SuccessDelta, MaxScore)]
    ELSE [ip EXCEPT !.last_seen = now,
                    !.total_logins = @ + 1,
                    !.failed_logins = @ + 1,
                    !.suspicious_activities = @ + 1,
                    !.reputation_score = Max(@ - FailurePenalty, MinScore)]

\* NewIPRecord with the initial score of a success given to a failure too
NewIPRecordFlatScore(ipAddress, result, first_seen, last_seen) ==
    [ip_address |-> ipAddress,
     reputation_score |-> InitialScoreSuccess,
     total_logins |-> 1,
     failed_logins |-> IF result = "success" THEN 0 ELSE 1,
     successful_logins |-> IF result = "success" THEN 1 ELSE 0,
     suspicious_activities |-> IF result = "success" THEN 0 ELSE 1,
     first_seen |-> first_seen,
     last_seen |-> last_seen,
     is_blocked |-> FALSE]

NewIPRecord(ipAddress, result, first_seen, last_seen) ==
    [ip_address |-> ipAddress,
     reputation_score |-> IF result = "success" THEN InitialScoreSuccess
                          ELSE InitialScoreFailure,
     total_logins |-> 1,
     failed_logins |-> IF result = "success" THEN 0 ELSE 1,
     successful_logins |-> IF result = "success" THEN 1 ELSE 0,
     suspicious_activities |-> IF result = "success" THEN 0 ELSE 1,
     first_seen |-> first_seen,
     last_seen |-> last_seen,
     is_blocked |-> FALSE]

\* lines 133-165: the array updateIPReputation writes back.  `now` is the
\* time of its first new Date(), `later` that of the second one (line 162).
\* updateIPReputation that adds a record at every observation
updateIPReputationAppending(ipReputations, ipAddress, result, now, later) ==
    Append(ipReputations, NewIPRecord(ipAddress, result, now, later))

updateIPReputation(ipReputations, ipAddress, result, now, later) ==
    LET ipIndex == findIndex(ipReputations, ipAddress)
    IN  IF ipIndex # 0
        THEN [ipReputations EXCEPT ![ipIndex] = UpdateExistingIP(@, result, now)]
        ELSE Append(ipReputations, NewIPRecord(ipAddress, result, now, later))

----------------------------------------------------------------------------
(* Lookups of the handlers *)

\* users.find(u => u.username === username): the index, 0 when none
RECURSIVE FindUserFrom(_, _, _)
FindUserFrom(users, username, i) ==
    IF i > Len(users) THEN 0
    ELSE IF users[i].username = username THEN i
    ELSE FindUserFrom(users, username, i + 1)

\* sessions.find(s => s.session_id === sessionId)?.user_id || null
RECURSIVE SessionUserFrom(_, _, _)
SessionUserFrom(sessions, sessionId, i) ==
    IF i > Len(sessions) THEN NoUserId
    ELSE IF sessions[i].session_id = sessionId THEN sessions[i].user_id
    ELSE SessionUserFrom(sessions, sessionId, i + 1)

SessionUserId(sessions, sessionId) == SessionUserFrom(sessions, sessionId, 1)

\* The log_id the batch loop gives the entry it is about to push.
BatchLogId(eventLogs, loggedCount) == Len(eventLogs) + loggedCount + 1

\* NextId that numbers from 0
NextIdFromZero(records) == Len(records)

\* The log_id of the single-event handler, the attempt_id of the login handler.
NextId(records) == Len(records) + 1

\* crypto.randomBytes(n).toString('hex'): two hex characters for each byte.
\* Of a token, the model keeps its length.
TokenBytes == 32
HexChars(bytes) == 2 * bytes

\* generateSessionToken with 8 random bytes
generateShortToken == [hexChars |-> HexChars(8)]

generateSessionToken == [hexChars |-> HexChars(TokenBytes)]

NoToken == [hexChars |-> 0]

RECURSIVE WithoutSessionId(_, _)
WithoutSessionId(sessions, sessionId) ==
    IF sessions = <<>> THEN <<>>
    ELSE LET rest == WithoutSessionId(Tail(sessions), sessionId)
         IN  IF Head(sessions).session_id = sessionId THEN rest
             ELSE <<Head(sessions)>> \o rest

\* CreateSession that replaces the sessions with the same session_id
CreateSessionReplacing(sessions, session) ==
    Append(WithoutSessionId(sessions, session.session_id), session)

\* loginSessions.push(session), line 250
CreateSession(sessions, session) == Append(sessions, session)

\* The session record of the login handler, lines 250-259.
NewSession(sessionId, user_id, ipAddress, rid) ==
    [session_id |-> sessionId,
     user_id |-> user_id,
     session_token |-> generateSessionToken,
     ip_address |-> ipAddress,
     is_active |-> TRUE,
     rid |-> rid]

\* The for loop of the batch handler over events[i..]: a null element throws
\* in the destructuring and is counted as failed, any other is pushed.
RECURSIVE BatchLoop(_, _, _, _, _)

\* BatchLoop without the inner try/catch: a null element ends the loop
BatchLoopAborting(events, i, acc, sessions, rid) ==
    IF i > Len(events) THEN acc
    ELSE IF events[i].isNull
    THEN [acc EXCEPT !.failedCount = @ + 1]
    ELSE BatchLoop(events, i + 1,
                   [acc EXCEPT
                      !.eventLogs = Append(@,
                          [log_id |-> BatchLogId(acc.eventLogs, acc.loggedCount),
                           session_id |-> events[i].sessionId,
                           user_id |-> SessionUserId(sessions, events[i].sessionId),
                           event_type |-> events[i].eventType,
                           rid |-> rid,
                           item |-> i]),
                      !.loggedCount = @ + 1],
                   sessions, rid)

BatchLoop(events, i, acc, sessions, rid) ==
    IF i > Len(events) THEN acc
    ELSE IF events[i].isNull
    THEN BatchLoop(events, i + 1,
                   [acc EXCEPT !.failedCount = @ + 1], sessions, rid)
    ELSE BatchLoop(events, i + 1,
                   [acc EXCEPT
                      !.eventLogs = Append(@,
                          [log_id |-> BatchLogId(acc.eventLogs, acc.loggedCount),
                           session_id |-> events[i].sessionId,
                           user_id |-> SessionUserId(sessions, events[i].sessionId),
                           event_type |-> events[i].eventType,
                           rid |-> rid,
                           item |-> i]),
                      !.loggedCount = @ + 1],
                   sessions, rid)

----------------------------------------------------------------------------
(* GET /api/analytics/login-stats *)

\* HoursAgo with a window of two days for "1h"
HoursAgoWide(timeRange) ==
    CASE timeRange = "1h" -> 48
      [] timeRange = "24h" -> 24
      [] timeRange = "7d" -> 168
      [] OTHER -> 24

\* lines 467-473; an absent timeRange has been replaced by '24h' (line 464)
HoursAgo(timeRange) ==
    CASE timeRange = "1h" -> 1
      [] timeRange = "24h" -> 24
      [] timeRange = "7d" -> 168
      [] OTHER -> 24

\* line 475
Threshold(now, timeRange) == now - HoursAgo(timeRange) * HourMs

\* Recent that keeps the attempt made exactly at the threshold
RecentInclusive(loginAttempts, threshold) ==
    {i \in 1..Len(loginAttempts) : loginAttempts[i].timestamp >= threshold}

\* lines 478-480; the positions of the attempts that pass the filter
Recent(loginAttempts, threshold) ==
    {i \in 1..Len(loginAttempts) : loginAttempts[i].timestamp > threshold}

\* Bucket with the addresses and usernames of both outcomes counted together
BucketSharedUniques(loginAttempts, recent, status) ==
    LET of == {i \in recent : loginAttempts[i].attempt_status = status}
    IN  [count |-> Cardinality(of),
         unique_ips |-> Cardinality({loginAttempts[i].ip_address : i \in recent}),
         unique_users |-> Cardinality({loginAttempts[i].username : i \in recent})]

\* lines 484-493: one bucket of the answer
Bucket(loginAttempts, recent, status) ==
    LET of == {i \in recent : loginAttempts[i].attempt_status = status}
    IN  [count |-> Cardinality(of),
         unique_ips |-> Cardinality({loginAttempts[i].ip_address : i \in of}),
         unique_users |-> Cardinality({loginAttempts[i].username : i \in of})]

LoginStats(loginAttempts, timeRange, now) ==
    LET recent == Recent(loginAttempts, Threshold(now, timeRange))
    IN  [SUCCESS |-> Bucket(loginAttempts, recent, "SUCCESS"),
         FAILURE |-> Bucket(loginAttempts, recent, "FAILURE")]

NoStats == LoginStats(<<>>, Undefined, 0)

----------------------------------------------------------------------------
(* The handlers *)

IdleProc ==
    [pc |-> "idle", kind |-> "none", rid |-> 0,
     username |-> Undefined, password |-> Undefined,
     ipAddress |-> Undefined, sessionId |-> Undefined,
     eventType |-> Undefined, events |-> <<>>,
     userFound |-> FALSE, user_id |-> NoUserId, attempt_status |-> Null,
     loginAttempts |-> <<>>, sessions |-> <<>>, eventLogs |-> <<>>,
     ipReputations |-> <<>>,
     eventLogsRead |-> <<>>, ipReputationsRead |-> <<>>, sessionsRead |-> <<>>,
     loginAttemptsRead |-> <<>>, recentAttempts |-> {}, ipData |-> Undefined,
     loggedCount |-> 0, failedCount |-> 0,
     sessionToken |-> NoToken,
     timeRange |-> Undefined, now |-> 0, stats |-> NoStats,
     wfile |-> Null, status |-> 0,
     message |-> Undefined, remainingAttempts |-> {},
     writeFailed |-> FALSE, tornRead |-> FALSE, readFailed |-> {}, issued |-> {}]

\* message of the answers that are not the failed login's: lines 196, 268,
\* 329, 356, 405; the answer to a statistics request has none.
ResponseMessage(kind, status) ==
    CASE kind = "login" /\ status = 400 -> "Username and password required"
      [] kind = "login" /\ status = 200 -> "Authentication successful"
      [] kind = "event" /\ status = 201 -> "Event logged successfully"
      [] kind = "batch" /\ status = 400 -> "No events provided"
      [] kind = "batch" /\ status = 201 -> "Batch logged successfully"
      [] kind = "lookup" /\ status = 404 -> "IP not found"
      [] OTHER -> Undefined

\* The handler has answered: its locals are gone.  What stays is the request,
\* the response (status, eventsLogged, failedEvents) and the history flags.
Respond(p, status) ==
    [IdleProc EXCEPT !.pc = "done", !.kind = p.kind, !.rid = p.rid,
                     !.status = status,
                     !.message = ResponseMessage(p.kind, status),
                     !.attempt_status = p.attempt_status,
                     !.sessionToken = p.sessionToken,
                     !.events = p.events,
                     !.loggedCount = p.loggedCount,
                     !.failedCount = p.failedCount,
                     !.writeFailed = p.writeFailed,
                     !.tornRead = p.tornRead,
                     !.readFailed = p.readFailed]

\* FailureReason that does not tell the two causes apart
FailureReasonFlat(p) == "invalid_credentials"

\* line 224
FailureReason(p) == IF ~p.userFound THEN "user_not_found" ELSE "invalid_password"

\* The answer to a failed login that tells the reason of the failure
LoginFailureResponseTelling(failure_reason) ==
    [status |-> 401,
     message |-> IF failure_reason = "user_not_found"
                 THEN "Unknown user" ELSE "Invalid credentials",
     remainingAttempts |-> {2}]

\* lines 232-237; data.remainingAttempts is {} when the answer carries none
LoginFailureResponse(failure_reason) ==
    [status |-> 401,
     message |-> "Invalid credentials",
     remainingAttempts |-> {2}]

Send(p, response) ==
    [Respond(p, response.status) EXCEPT
        !.message = response.message,
        !.remainingAttempts = response.remainingAttempts]

Free(h) == proc[h].pc \in {"idle", "done"}

\* A request is taken by the first free slot (the slots are interchangeable).
Accepts(h) ==
    /\ Free(h)
    /\ \A g \in Handlers : g < h => ~Free(g)
    /\ h <= lim.handlers
    /\ arrivals < lim.requests

\* POST /api/auth/login, lines 189-202: validation, then the read of the users
LoginRequest(h) ==
    /\ Accepts(h)
    /\ \E u \in lim.usernames, p \in lim.passwords, a \in lim.addresses,
          s \in lim.loginSessionIds :
         LET req == [IdleProc EXCEPT !.kind = "login", !.rid = arrivals + 1,
                                     !.username = u, !.password = p,
                                     !.ipAddress = a, !.sessionId = s]
         IN  proc' = [proc EXCEPT ![h] =
                IF u = Undefined \/ p = Undefined
                THEN Respond(req, 400)
                ELSE [req EXCEPT !.pc = "readUsers"]]
    /\ arrivals' = arrivals + 1
    /\ UNCHANGED <<disk, faults, lim, clock>>

\* lines 202-206: users read, user looked up; the attempts file is read next
LoginReadUsers(h) ==
    /\ proc[h].pc = "readUsers"
    /\ \E r \in ReadOutcomes(USERS_FILE) :
         LET i == FindUserFrom(r.data, proc[h].username, 1)
             found == i # 0
         IN  /\ proc' = [proc EXCEPT ![h] =
                  [@ EXCEPT !.pc = "readAttempts",
                            !.user_id = IF found THEN r.data[i].user_id ELSE NoUserId,
                            !.attempt_status =
                                IF found /\ r.data[i].password = proc[h].password
                                THEN "SUCCESS" ELSE "FAILURE",
                            !.userFound = found,
                            !.tornRead = @ \/ r.torn,
                            !.readFailed = IF r.failed THEN @ \cup {USERS_FILE} ELSE @]]
             /\ faults' = IF r.fault THEN faults + 1 ELSE faults
    /\ UNCHANGED <<disk, arrivals, lim, clock>>

\* CallWrite that goes on without writing the attempts
CallWriteAttemptSkipped(p, f) ==
    IF f = LOGIN_ATTEMPTS_FILE
    THEN [p EXCEPT !.pc = IF p.attempt_status = "SUCCESS"
                          THEN "readSessions" ELSE "readReputation"]
    ELSE [p EXCEPT !.pc = "writeOpen", !.wfile = f, !.issued = @ \cup {f}]

\* The write a handler issues next: writeJSON(f, ...) is called, the handler
\* is suspended until it returns. issued keeps the files whose write the
\* handler has called so far.
CallWrite(p, f) == [p EXCEPT !.pc = "writeOpen", !.wfile = f, !.issued = @ \cup {f}]

\* lines 206-227 / 241-243: attempts read, the record built and pushed; the
\* clock counts the time since the server started, at Now
LoginReadAttempts(h) ==
    /\ proc[h].pc = "readAttempts"
    /\ \E r \in ReadOutcomes(LOGIN_ATTEMPTS_FILE) :
         LET attemptRecord ==
                 [attempt_id |-> NextId(r.data),
                  timestamp |-> Now + clock,
                  username |-> proc[h].username,
                  user_id |-> proc[h].user_id,
                  session_id |-> proc[h].sessionId,
                  ip_address |-> proc[h].ipAddress,
                  attempt_status |-> proc[h].attempt_status,
                  failure_reason |->
                      IF proc[h].attempt_status = "SUCCESS" THEN Undefined
                      ELSE FailureReason(proc[h]),
                  rid |-> proc[h].rid]
         IN  /\ proc' = [proc EXCEPT ![h] =
                  CallWrite([@ EXCEPT !.loginAttemptsRead = r.data,
                                      !.loginAttempts = Append(r.data, attemptRecord),
                                      !.tornRead = @ \/ r.torn,
                                      !.readFailed = IF r.failed THEN @ \cup {LOGIN_ATTEMPTS_FILE} ELSE @],
                            LOGIN_ATTEMPTS_FILE)]
             /\ faults' = IF r.fault THEN faults + 1 ELSE faults
    /\ UNCHANGED <<disk, arrivals, lim, clock>>

\* lines 246-261: sessions read, the new session pushed
LoginReadSessions(h) ==
    /\ proc[h].pc = "readSessions"
    /\ proc[h].kind = "login"
    /\ \E r \in ReadOutcomes(SESSIONS_FILE) :
         LET session == NewSession(proc[h].sessionId, proc[h].user_id,
                                   proc[h].ipAddress, proc[h].rid)
         IN  /\ proc' = [proc EXCEPT ![h] =
                  CallWrite([@ EXCEPT !.sessionsRead = r.data,
                                      !.sessions = CreateSession(r.data, session),
                                      !.sessionToken = session.session_token,
                                      !.tornRead = @ \/ r.torn,
                                      !.readFailed = IF r.failed THEN @ \cup {SESSIONS_FILE} ELSE @],
                            SESSIONS_FILE)]
             /\ faults' = IF r.fault THEN faults + 1 ELSE faults
    /\ UNCHANGED <<disk, arrivals, lim, clock>>

\* updateIPReputation, lines 132-165, called with the outcome of the login
LoginReadReputation(h) ==
    /\ proc[h].pc = "readReputation"
    /\ \E r \in ReadOutcomes(IP_REPUTATION_FILE) :
         LET result == IF proc[h].attempt_status = "SUCCESS"
                       THEN "success" ELSE "failure"
             found == findIndex(r.data, proc[h].ipAddress) # 0
         IN  \E now \in clock..lim.ticks, later \in clock..lim.ticks :
             /\ now <= later
             /\ found => later = now
             /\ clock' = later
             /\ proc' = [proc EXCEPT ![h] =
                  CallWrite([@ EXCEPT !.ipReputationsRead = r.data,
                                      !.now = now,
                                      !.ipReputations =
                                          updateIPReputation(r.data, proc[h].ipAddress,
                                                             result, now, later),
                                      !.tornRead = @ \/ r.torn,
                                      !.readFailed = IF r.failed THEN @ \cup {IP_REPUTATION_FILE} ELSE @],
                            IP_REPUTATION_FILE)]
             /\ faults' = IF r.fault THEN faults + 1 ELSE faults
    /\ UNCHANGED <<disk, arrivals, lim>>

\* POST /api/log/event, lines 295-299
EventRequest(h) ==
    /\ Accepts(h)
    /\ \E s \in lim.sessionIds, t \in EventTypes :
         proc' = [proc EXCEPT ![h] =
            [IdleProc EXCEPT !.kind = "event", !.rid = arrivals + 1,
                             !.pc = "readSessions",
                             !.sessionId = s, !.eventType = t]]
    /\ arrivals' = arrivals + 1
    /\ UNCHANGED <<disk, faults, lim, clock>>

\* lines 299-304: sessions read, the user of the session looked up
EventReadSessions(h) ==
    /\ proc[h].pc = "readSessions"
    /\ proc[h].kind = "event"
    /\ \E r \in ReadOutcomes(SESSIONS_FILE) :
         /\ proc' = [proc EXCEPT ![h] =
              [@ EXCEPT !.pc = "readEvents",
                        !.sessions = r.data,
                        !.user_id = SessionUserId(r.data, proc[h].sessionId),
                        !.tornRead = @ \/ r.torn,
                        !.readFailed = IF r.failed THEN @ \cup {SESSIONS_FILE} ELSE @]]
         /\ faults' = IF r.fault THEN faults + 1 ELSE faults
    /\ UNCHANGED <<disk, arrivals, lim, clock>>

\* lines 304-325: event logs read, the entry built and pushed
EventReadEvents(h) ==
    /\ proc[h].pc = "readEvents"
    /\ proc[h].kind = "event"
    /\ \E r \in ReadOutcomes(EVENT_LOGS_FILE) :
         LET logEntry ==
                 [log_id |-> NextId(r.data),
                  session_id |-> proc[h].sessionId,
                  user_id |-> proc[h].user_id,
                  event_type |-> proc[h].eventType,
                  rid |-> proc[h].rid,
                  item |-> 1]
         IN  /\ proc' = [proc EXCEPT ![h] =
                  CallWrite([@ EXCEPT !.eventLogsRead = r.data,
                                      !.eventLogs = Append(r.data, logEntry),
                                      !.loggedCount = 1,
                                      !.tornRead = @ \/ r.torn,
                                      !.readFailed = IF r.failed THEN @ \cup {EVENT_LOGS_FILE} ELSE @],
                            EVENT_LOGS_FILE)]
             /\ faults' = IF r.fault THEN faults + 1 ELSE faults
    /\ UNCHANGED <<disk, arrivals, lim, clock>>

\* POST /api/log/batch, lines 350-361
BatchRequest(h) ==
    /\ Accepts(h)
    /\ \E evs \in SeqsUpTo(EventInputs(lim.sessionIds), lim.batch) :
         LET req == [IdleProc EXCEPT !.kind = "batch", !.rid = arrivals + 1,
                                     !.events = evs]
         IN  proc' = [proc EXCEPT ![h] =
                IF Len(evs) = 0
                THEN Respond(req, 400)
                ELSE [req EXCEPT !.pc = "readEvents"]]
    /\ arrivals' = arrivals + 1
    /\ UNCHANGED <<disk, faults, lim, clock>>

\* line 361: event logs read
BatchReadEvents(h) ==
    /\ proc[h].pc = "readEvents"
    /\ proc[h].kind = "batch"
    /\ \E r \in ReadOutcomes(EVENT_LOGS_FILE) :
         /\ proc' = [proc EXCEPT ![h] =
              [@ EXCEPT !.pc = "readSessions",
                        !.eventLogsRead = r.data,
                        !.eventLogs = r.data,
                        !.tornRead = @ \/ r.torn,
                        !.readFailed = IF r.failed THEN @ \cup {EVENT_LOGS_FILE} ELSE @]]
         /\ faults' = IF r.fault THEN faults + 1 ELSE faults
    /\ UNCHANGED <<disk, arrivals, lim, clock>>

\* lines 362-401: sessions read, the loop run, the write issued
BatchReadSessions(h) ==
    /\ proc[h].pc = "readSessions"
    /\ proc[h].kind = "batch"
    /\ \E r \in ReadOutcomes(SESSIONS_FILE) :
         LET out == BatchLoop(proc[h].events, 1,
                              [eventLogs |-> proc[h].eventLogs,
                               loggedCount |-> 0, failedCount |-> 0],
                              r.data, proc[h].rid)
         IN  /\ proc' = [proc EXCEPT ![h] =
                  CallWrite([@ EXCEPT !.sessions = r.data,
                                      !.eventLogs = out.eventLogs,
                                      !.loggedCount = out.loggedCount,
                                      !.failedCount = out.failedCount,
                                      !.tornRead = @ \/ r.torn,
                                      !.readFailed = IF r.failed THEN @ \cup {SESSIONS_FILE} ELSE @],
                            EVENT_LOGS_FILE)]
             /\ faults' = IF r.fault THEN faults + 1 ELSE faults
    /\ UNCHANGED <<disk, arrivals, lim, clock>>

\* GET /api/analytics/login-stats, line 461: the request is taken
StatsRequest(h) ==
    /\ Accepts(h)
    /\ \E t \in TimeRanges :
         proc' = [proc EXCEPT ![h] =
            [IdleProc EXCEPT !.kind = "stats", !.rid = arrivals + 1,
                             !.pc = "readStats", !.timeRange = t]]
    /\ arrivals' = arrivals + 1
    /\ UNCHANGED <<disk, faults, lim, clock>>

\* lines 463-499: attempts read, Date.now() taken, the answer computed and sent
StatsReadAttempts(h) ==
    /\ proc[h].pc = "readStats"
    /\ \E r \in ReadOutcomes(LOGIN_ATTEMPTS_FILE) :
         /\ proc' = [proc EXCEPT ![h] =
              [Respond([@ EXCEPT !.tornRead = @ \/ r.torn,
                                 !.readFailed = IF r.failed THEN @ \cup {LOGIN_ATTEMPTS_FILE} ELSE @],
                       200)
                  EXCEPT !.timeRange = proc[h].timeRange,
                         !.now = Now + clock,
                         !.loginAttemptsRead = r.data,
                         !.recentAttempts = Recent(r.data, Threshold(Now + clock, proc[h].timeRange)),
                         !.stats = LoginStats(r.data, proc[h].timeRange, Now + clock)]]
         /\ faults' = IF r.fault THEN faults + 1 ELSE faults
    /\ UNCHANGED <<disk, arrivals, lim, clock>>

\* GET /api/analytics/ip-reputation/:ip, line 514
LookupRequest(h) ==
    /\ Accepts(h)
    /\ \E ip \in lim.addresses :
         proc' = [proc EXCEPT ![h] =
            [IdleProc EXCEPT !.kind = "lookup", !.rid = arrivals + 1,
                             !.pc = "readLookup", !.ipAddress = ip]]
    /\ arrivals' = arrivals + 1
    /\ UNCHANGED <<disk, faults, lim, clock>>

\* lines 515-531: the reputations read, the record of the address looked for,
\* 404 when there is none and the record otherwise
LookupReadReputation(h) ==
    /\ proc[h].pc = "readLookup"
    /\ \E r \in ReadOutcomes(IP_REPUTATION_FILE) :
         LET ipIndex == findIndex(r.data, proc[h].ipAddress)
             read == [proc[h] EXCEPT !.tornRead = @ \/ r.torn,
                                     !.readFailed = IF r.failed THEN @ \cup {IP_REPUTATION_FILE} ELSE @]
         IN  /\ proc' = [proc EXCEPT ![h] =
                  [Respond(read, IF ipIndex = 0 THEN 404 ELSE 200)
                      EXCEPT !.ipAddress = proc[h].ipAddress,
                             !.ipReputationsRead = r.data,
                             !.ipData = IF ipIndex = 0 THEN Undefined ELSE r.data[ipIndex]]]
             /\ faults' = IF r.fault THEN faults + 1 ELSE faults
    /\ UNCHANGED <<disk, arrivals, lim, clock>>

\* GET /api/export/all-logs
ExportRequest(h) ==
    /\ Accepts(h)
    /\ proc' = [proc EXCEPT ![h] =
          [IdleProc EXCEPT !.kind = "export", !.rid = arrivals + 1,
                           !.pc = "exportEvents"]]
    /\ arrivals' = arrivals + 1
    /\ UNCHANGED <<disk, faults, lim, clock>>

\* What a read of the export leaves in the handler (lines 549-551).
ExportKept(p, f, r) ==
    [p EXCEPT !.eventLogs = IF f = EVENT_LOGS_FILE THEN r.data ELSE @,
              !.loginAttempts = IF f = LOGIN_ATTEMPTS_FILE THEN r.data ELSE @,
              !.ipReputations = IF f = IP_REPUTATION_FILE THEN r.data ELSE @,
              !.tornRead = @ \/ r.torn,
              !.readFailed = IF r.failed THEN @ \cup {f} ELSE @]

\* line 549
ExportReadEvents(h) ==
    /\ proc[h].pc = "exportEvents"
    /\ \E r \in ReadOutcomes(EVENT_LOGS_FILE) :
         /\ proc' = [proc EXCEPT ![h] =
              [ExportKept(@, EVENT_LOGS_FILE, r) EXCEPT !.pc = "exportAttempts"]]
         /\ faults' = IF r.fault THEN faults + 1 ELSE faults
    /\ UNCHANGED <<disk, arrivals, lim, clock>>

\* line 550
ExportReadAttempts(h) ==
    /\ proc[h].pc = "exportAttempts"
    /\ \E r \in ReadOutcomes(LOGIN_ATTEMPTS_FILE) :
         /\ proc' = [proc EXCEPT ![h] =
              [ExportKept(@, LOGIN_ATTEMPTS_FILE, r) EXCEPT !.pc = "exportReputation"]]
         /\ faults' = IF r.fault THEN faults + 1 ELSE faults
    /\ UNCHANGED <<disk, arrivals, lim, clock>>

\* line 551
ExportReadReputation(h) ==
    /\ proc[h].pc = "exportReputation"
    /\ \E r \in ReadOutcomes(IP_REPUTATION_FILE) :
         /\ proc' = [proc EXCEPT ![h] =
              [ExportKept(@, IP_REPUTATION_FILE, r) EXCEPT !.pc = "exportSessions"]]
         /\ faults' = IF r.fault THEN faults + 1 ELSE faults
    /\ UNCHANGED <<disk, arrivals, lim, clock>>

\* lines 552-563: the sessions read, the four arrays sent
ExportReadSessions(h) ==
    /\ proc[h].pc = "exportSessions"
    /\ \E r \in ReadOutcomes(SESSIONS_FILE) :
         /\ proc' = [proc EXCEPT ![h] =
              [Respond([@ EXCEPT !.tornRead = @ \/ r.torn,
                                 !.readFailed = IF r.failed THEN @ \cup {SESSIONS_FILE} ELSE @],
                       200)
                  EXCEPT !.eventLogs = proc[h].eventLogs,
                         !.loginAttempts = proc[h].loginAttempts,
                         !.ipReputations = proc[h].ipReputations,
                         !.sessions = r.data]]
         /\ faults' = IF r.fault THEN faults + 1 ELSE faults
    /\ UNCHANGED <<disk, arrivals, lim, clock>>

----------------------------------------------------------------------------
(* writeJSON, and what each handler does when it returns *)

\* The array a handler hands to writeJSON for the file it is writing.
WriteData(p) ==
    CASE p.wfile = LOGIN_ATTEMPTS_FILE -> p.loginAttempts
      [] p.wfile = SESSIONS_FILE -> p.sessions
      [] p.wfile = EVENT_LOGS_FILE -> p.eventLogs
      [] p.wfile = IP_REPUTATION_FILE -> p.ipReputations

\* AfterWrite with the session created whatever the outcome of the login
AfterWriteSessionAlways(p) ==
    CASE p.kind = "login" /\ p.wfile = LOGIN_ATTEMPTS_FILE ->
             [p EXCEPT !.pc = "readSessions", !.wfile = Null]
      [] p.kind = "login" /\ p.wfile = SESSIONS_FILE ->
             [p EXCEPT !.pc = "readReputation", !.wfile = Null]
      [] p.kind = "login" /\ p.wfile = IP_REPUTATION_FILE ->
             IF p.attempt_status = "SUCCESS" THEN Respond(p, 200)
             ELSE Send(p, LoginFailureResponse(FailureReason(p)))
      [] p.kind \in {"event", "batch"} ->
             Respond(p, 201)

\* The handler's code after `await writeJSON(...)`: the return value is not
\* looked at.  Login: lines 227-238 and 243-277; event: 325-336; batch: 401-411.
AfterWrite(p) ==
    CASE p.kind = "login" /\ p.wfile = LOGIN_ATTEMPTS_FILE ->
             [p EXCEPT !.pc = IF p.attempt_status = "SUCCESS"
                              THEN "readSessions" ELSE "readReputation",
                       !.wfile = Null]
      [] p.kind = "login" /\ p.wfile = SESSIONS_FILE ->
             [p EXCEPT !.pc = "readReputation", !.wfile = Null]
      [] p.kind = "login" /\ p.wfile = IP_REPUTATION_FILE ->
             IF p.attempt_status = "SUCCESS" THEN Respond(p, 200)
             ELSE Send(p, LoginFailureResponse(FailureReason(p)))
      [] p.kind \in {"event", "batch"} ->
             Respond(p, 201)

\* WriteDone that leaves the handler waiting for the write it has made
WriteDoneWaiting(h) ==
    /\ proc[h].pc = "writeData"
    /\ disk' = [disk EXCEPT ![proc[h].wfile] = Landed(proc[h].wfile, WriteData(proc[h]))]
    /\ UNCHANGED <<proc, arrivals, faults, lim, clock>>

\* fs.writeFile opens (and truncates) the file
WriteOpen(h) ==
    /\ proc[h].pc = "writeOpen"
    /\ disk' = [disk EXCEPT ![proc[h].wfile].ok = FALSE]
    /\ proc' = [proc EXCEPT ![h].pc = "writeData"]
    /\ UNCHANGED <<arrivals, faults, lim, clock>>

\* the open fails: the file is as it was, writeJSON returns false
WriteOpenFails(h) ==
    /\ proc[h].pc = "writeOpen"
    /\ faults < lim.faults
    /\ faults' = faults + 1
    /\ proc' = [proc EXCEPT ![h] = AfterWrite([@ EXCEPT !.writeFailed = TRUE])]
    /\ UNCHANGED <<disk, arrivals, lim, clock>>

\* the data is written, writeJSON returns true
WriteDone(h) ==
    /\ proc[h].pc = "writeData"
    /\ disk' = [disk EXCEPT ![proc[h].wfile] = Landed(proc[h].wfile, WriteData(proc[h]))]
    /\ proc' = [proc EXCEPT ![h] = AfterWrite(@)]
    /\ UNCHANGED <<arrivals, faults, lim, clock>>

\* the write fails after the truncation: writeJSON returns false
WriteDataFails(h) ==
    /\ proc[h].pc = "writeData"
    /\ faults < lim.faults
    /\ faults' = faults + 1
    /\ proc' = [proc EXCEPT ![h] = AfterWrite([@ EXCEPT !.writeFailed = TRUE])]
    /\ UNCHANGED <<disk, arrivals, lim, clock>>

----------------------------------------------------------------------------
\* The limits of a run of any requests, overlapping, with file errors.
Limits ==
    [handlers |-> 2, requests |-> MaxRequests,
     faults |-> MaxFaults, batch |-> MaxBatch,
     usernames |-> FewUsernames, passwords |-> FewPasswords,
     addresses |-> {"10.0.0.1"}, loginSessionIds |-> {"s1"},
     sessionIds |-> {"s1"}, ticks |-> 0]

FreshDisk ==
    [f \in Files |->
        [data |-> IF f = USERS_FILE THEN initialUsers ELSE <<>>, ok |-> TRUE]]

\* The server after initializeStorage on an empty data directory.
Init ==
    /\ disk = FreshDisk
    /\ proc = [h \in Handlers |-> IdleProc]
    /\ arrivals = 0
    /\ faults = 0
    /\ clock = 0
    /\ lim = Limits

LoginStep(h) ==
    \/ LoginRequest(h)
    \/ LoginReadUsers(h)
    \/ LoginReadAttempts(h)
    \/ LoginReadSessions(h)
    \/ LoginReadReputation(h)

EventStep(h) ==
    \/ EventRequest(h)
    \/ EventReadSessions(h)
    \/ EventReadEvents(h)

BatchStep(h) ==
    \/ BatchRequest(h)
    \/ BatchReadEvents(h)
    \/ BatchReadSessions(h)

WriteStep(h) ==
    \/ WriteOpen(h)
    \/ WriteOpenFails(h)
    \/ WriteDone(h)
    \/ WriteDataFails(h)

Next ==
    \E h \in Handlers :
        LoginStep(h) \/ EventStep(h) \/ BatchStep(h) \/ WriteStep(h)

\* Any requests, overlapping.
Spec == Init /\ [][Next]_vars

----------------------------------------------------------------------------
(* Login requests only, overlapping, from two addresses, on a server whose
   reputation file is empty or holds the record an address has after a run
   of failed or of successful logins. *)

RECURSIVE Observed(_, _, _)
Observed(ipAddress, result, n) ==
    IF n = 0 THEN <<>>
    ELSE updateIPReputation(Observed(ipAddress, result, n - 1), ipAddress, result, 0, 0)

\* How a run of logins goes: the requests overlap and no file operation
\* fails, or they are handled one at a time and file operations may fail.
Overlapping == [Limits EXCEPT !.faults = 0, !.usernames = {"admin", "ghost"}]

OneAtATime == [Limits EXCEPT !.handlers = 1, !.addresses = Addresses]

AgedReputations ==
    {<<>>,
     Observed("10.0.0.1", "failure", FailuresToFloor),
     Observed("10.0.0.1", "success", SuccessesToCeiling)}

\* Overlapping runs start without the record at the ceiling.
InitLogin ==
    /\ lim \in {Overlapping, OneAtATime}
    /\ \E reps \in AgedReputations :
         /\ lim = Overlapping => reps # Observed("10.0.0.1", "success", SuccessesToCeiling)
         /\ disk = [FreshDisk EXCEPT ![IP_REPUTATION_FILE].data = reps]
    /\ proc = [h \in Handlers |-> IdleProc]
    /\ arrivals = 0
    /\ faults = 0
    /\ clock = 0

NextLogin == \E h \in Handlers : LoginStep(h) \/ WriteStep(h)

SpecLogin == InitLogin /\ [][NextLogin]_vars

----------------------------------------------------------------------------
(* Login requests, one at a time, on a server that has just been set up. *)

FreshRuns ==
    [OneAtATime EXCEPT !.requests = MaxFreshRequests,
                       !.usernames = Usernames, !.passwords = Passwords]

InitFresh ==
    /\ disk = FreshDisk
    /\ proc = [h \in Handlers |-> IdleProc]
    /\ arrivals = 0
    /\ faults = 0
    /\ clock = 0
    /\ lim = FreshRuns

SpecFresh == InitFresh /\ [][NextLogin]_vars

----------------------------------------------------------------------------
(* Event and batch requests only, on a server whose event log is empty or
   holds what one event request or one batch of two left there.  The
   requests overlap and no file operation fails, or they are handled one at
   a time and file operations may fail: with longer batches, or with events
   that carry no sessionId. *)

SeedBatch ==
    BatchLoop(<<[isNull |-> FALSE, sessionId |-> "s1", eventType |-> "click"],
                [isNull |-> FALSE, sessionId |-> "s1", eventType |-> "click"]>>,
              1, [eventLogs |-> <<>>, loggedCount |-> 0, failedCount |-> 0],
              <<>>, 0).eventLogs

SeedLedgers == {<<>>, SubSeq(SeedBatch, 1, 1), SeedBatch}

OverlappingEvents == [Limits EXCEPT !.faults = 0]

LongBatches ==
    [Limits EXCEPT !.handlers = 1, !.requests = BatchRunRequests,
                   !.batch = BatchRunLen]

LooseEvents ==
    [Limits EXCEPT !.handlers = 1, !.requests = BatchRunRequests,
                   !.sessionIds = {"s1", Undefined}]

InitEvents ==
    /\ \E ledger \in SeedLedgers :
         disk = [FreshDisk EXCEPT ![EVENT_LOGS_FILE].data = ledger]
    /\ proc = [h \in Handlers |-> IdleProc]
    /\ arrivals = 0
    /\ faults = 0
    /\ clock = 0
    /\ lim \in {OverlappingEvents, LongBatches, LooseEvents}

NextEvents == \E h \in Handlers : EventStep(h) \/ BatchStep(h) \/ WriteStep(h)

SpecEvents == InitEvents /\ [][NextEvents]_vars

----------------------------------------------------------------------------
(* Event and batch requests, one at a time, on a server where admin and then
   user1 have logged in with the same client-supplied session id. *)

SharedSessionId ==
    <<NewSession("s1", initialUsers[1].user_id, "10.0.0.1", 0),
      NewSession("s1", initialUsers[2].user_id, "10.0.0.1", 0)>>

Lookups ==
    [Limits EXCEPT !.handlers = 1, !.requests = BatchRunRequests,
                   !.sessionIds = SessionIds]

InitLookup ==
    /\ disk = [FreshDisk EXCEPT ![SESSIONS_FILE].data = SharedSessionId]
    /\ proc = [h \in Handlers |-> IdleProc]
    /\ arrivals = 0
    /\ faults = 0
    /\ clock = 0
    /\ lim = Lookups

SpecLookup == InitLookup /\ [][NextEvents]_vars

----------------------------------------------------------------------------
(* Statistics requests, one at a time, on a server whose attempts file holds
   up to MaxStatAttempts attempts made a week, a day or an hour before now,
   to the millisecond, or one millisecond later. *)

StatTimes ==
    {Now - 168 * HourMs,
     Now - 24 * HourMs, Now - 24 * HourMs + 1,
     Now - HourMs, Now - HourMs + 1}

StatAttempts ==
    [attempt_id : {0}, timestamp : StatTimes, username : {"admin", "ghost"},
     ip_address : Addresses, attempt_status : {"SUCCESS", "FAILURE"}, rid : {0}]

StatsRuns ==
    [Limits EXCEPT !.handlers = 1, !.requests = MaxStatsRequests]

\* Attempts are appended as they are made, with attempt_id their position
\* (line 209) and the time of the clock (line 210).
Ledgered(attempts) ==
    [i \in 1..Len(attempts) |-> [attempts[i] EXCEPT !.attempt_id = i]]

InTimeOrder(attempts) ==
    \A i \in 1..(Len(attempts) - 1) : attempts[i].timestamp <= attempts[i + 1].timestamp

InitStats ==
    /\ \E attempts \in SeqsUpTo(StatAttempts, MaxStatAttempts) :
         /\ InTimeOrder(attempts)
         /\ disk = [FreshDisk EXCEPT ![LOGIN_ATTEMPTS_FILE].data = Ledgered(attempts)]
    /\ proc = [h \in Handlers |-> IdleProc]
    /\ arrivals = 0
    /\ faults = 0
    /\ clock = 0
    /\ lim = StatsRuns

StatsStep(h) ==
    \/ StatsRequest(h)
    \/ StatsReadAttempts(h)

NextStats == \E h \in Handlers : StatsStep(h)

SpecStats == InitStats /\ [][NextStats]_vars

----------------------------------------------------------------------------
(* Logins, overlapping, from two addresses, on a server that has just been
   set up; no file operation fails, and the clock advances. *)

Racing ==
    [Overlapping EXCEPT !.passwords = {"admin123"}, !.addresses = Addresses,
                        !.ticks = MaxTicks]

InitRace ==
    /\ disk = FreshDisk
    /\ proc = [h \in Handlers |-> IdleProc]
    /\ arrivals = 0
    /\ faults = 0
    /\ clock = 0
    /\ lim = Racing

NextRace == \E h \in Handlers : LoginStep(h) \/ WriteOpen(h) \/ WriteDone(h)

SpecRace == InitRace /\ [][NextRace]_vars

----------------------------------------------------------------------------
(* Any requests, overlapping, every handler that has taken a request being   *)
(* run again and again: the event loop resumes a handler whenever the file   *)
(* operation it awaits has returned, and file operations return.             *)

\* Each handler slot takes one request, so that the requests overlap from
\* start to end; a batch has one event, its loop being no step of its own.
Live ==
    [Limits EXCEPT !.requests = Cardinality(Handlers), !.batch = 1,
                   !.usernames = {"admin"}]

InitLive ==
    /\ disk = FreshDisk
    /\ proc = [h \in Handlers |-> IdleProc]
    /\ arrivals = 0
    /\ faults = 0
    /\ clock = 0
    /\ lim = Live

\* The steps of handler h after it has taken its request.
Resume(h) ==
    \/ LoginReadUsers(h)
    \/ LoginReadAttempts(h)
    \/ LoginReadSessions(h)
    \/ LoginReadReputation(h)
    \/ EventReadSessions(h)
    \/ EventReadEvents(h)
    \/ BatchReadEvents(h)
    \/ BatchReadSessions(h)
    \/ WriteStep(h)

SpecLive == InitLive /\ [][Next]_vars /\ \A h \in Handlers : WF_vars(Resume(h))

----------------------------------------------------------------------------
(* Any requests, one at a time, with file errors, on a server that has just  *)
(* been set up.                                                              *)

Alone ==
    [Limits EXCEPT !.handlers = 1, !.requests = MaxFreshRequests,
                   !.usernames = {"admin"}]

InitAlone ==
    /\ disk = FreshDisk
    /\ proc = [h \in Handlers |-> IdleProc]
    /\ arrivals = 0
    /\ faults = 0
    /\ clock = 0
    /\ lim = Alone

SpecAlone == InitAlone /\ [][Next]_vars

----------------------------------------------------------------------------
(* The read endpoints beside logins: login-stats, the reputation of an       *)
(* address, the export.  The reputation file starts empty or with the record *)
(* of an address that failed once.                                           *)

Reading ==
    [Overlapping EXCEPT !.usernames = {"admin"}, !.passwords = FewPasswords]

InitReads ==
    /\ \E seen \in {<<>>, Observed("10.0.0.1", "failure", 1)} :
         disk = [FreshDisk EXCEPT ![IP_REPUTATION_FILE].data = seen]
    /\ proc = [h \in Handlers |-> IdleProc]
    /\ arrivals = 0
    /\ faults = 0
    /\ clock = 0
    /\ lim = Reading

ReadStep(h) ==
    \/ StatsRequest(h)
    \/ StatsReadAttempts(h)
    \/ LookupRequest(h)
    \/ LookupReadReputation(h)
    \/ ExportRequest(h)
    \/ ExportReadEvents(h)
    \/ ExportReadAttempts(h)
    \/ ExportReadReputation(h)
    \/ ExportReadSessions(h)

NextReads ==
    \E h \in Handlers :
        \/ LoginStep(h)
        \/ ReadStep(h)
        \/ WriteOpen(h)
        \/ WriteDone(h)

SpecReads == InitReads /\ [][NextReads]_vars

----------------------------------------------------------------------------
(* Properties *)

Completed(h, kind) ==
    /\ proc[h].pc = "done"
    /\ proc[h].kind = kind
    /\ proc[h].status \in {200, 201, 401}

Holds(f, rid) == \E i \in 1..Len(disk[f].data) : disk[f].data[i].rid = rid

Ledger(kind) == IF kind = "login" THEN LOGIN_ATTEMPTS_FILE ELSE EVENT_LOGS_FILE

\* C1: no update is lost: once two login requests, or two event requests,
\* have both completed (no file operation failed, the file parses), the
\* collection holds the record of each.
C1_NoLostUpdate ==
    \A kind \in {"login", "event"} :
      \A h1, h2 \in Handlers :
        ( /\ h1 # h2
          /\ Completed(h1, kind) /\ Completed(h2, kind)
          /\ faults = 0
    /\ clock = 0
          /\ disk[Ledger(kind)].ok )
        => Holds(Ledger(kind), proc[h1].rid) /\ Holds(Ledger(kind), proc[h2].rid)

StrictlyIncreasing(records, id(_)) ==
    \A i, j \in 1..Len(records) : i < j => id(records[i]) < id(records[j])

AttemptId(r) == r.attempt_id
LogId(r) == r.log_id

\* C2: in every state the attempt_id values of the attempts collection, and
\* the log_id values of the events collection, are pairwise distinct and
\* strictly increasing in collection order.
C2_IdsStrictlyIncreasing ==
    faults = 0 =>
      /\ StrictlyIncreasing(disk[LOGIN_ATTEMPTS_FILE].data, AttemptId)
      /\ StrictlyIncreasing(disk[EVENT_LOGS_FILE].data, LogId)

\* The handler has read f to modify it and has not yet written it back.
InSpan(h, f) ==
    \/ proc[h].pc \in {"writeOpen", "writeData"} /\ proc[h].wfile = f
    \/ /\ proc[h].kind = "batch" /\ proc[h].pc = "readSessions"
       /\ f = EVENT_LOGS_FILE

\* C3: the read-modify-write spans of a collection exclude each other: never
\* have two handlers both read the same collection for modification with
\* neither having written it back.
C3_MutualExclusion ==
    \A f \in Files : \A h1, h2 \in Handlers :
        h1 # h2 => ~(InSpan(h1, f) /\ InSpan(h2, f))

\* Every reputation record there is: in the file, and in the arrays the
\* handlers hold.
ReputationRecords ==
    {disk[IP_REPUTATION_FILE].data[i] : i \in 1..Len(disk[IP_REPUTATION_FILE].data)}
    \cup UNION {{proc[h].ipReputations[i] : i \in 1..Len(proc[h].ipReputations)} :
                  h \in Handlers}

\* C4: every reputation record has total_logins = successful_logins +
\* failed_logins, after every observation.
C4_TotalIsSum ==
    \A r \in ReputationRecords :
        r.total_logins = r.successful_logins + r.failed_logins

\* C4 witness: a record updated by a success and by a failure is in the file.
C4_Witness ==
    \E i \in 1..Len(disk[IP_REPUTATION_FILE].data) :
        LET r == disk[IP_REPUTATION_FILE].data[i]
        IN  r.successful_logins >= 1 /\ r.failed_logins >= 1 /\ r.total_logins >= 2

\* The handler is in updateIPReputation, past the update of the array it read.
Observing(h) ==
    /\ proc[h].pc \in {"writeOpen", "writeData"}
    /\ proc[h].wfile = IP_REPUTATION_FILE

ObservedIndex(h) == findIndex(proc[h].ipReputationsRead, proc[h].ipAddress)

\* C5: every reputation_score is in [0,100]; an observation of a success
\* leaves the score of the record it updates no lower than it found it, an
\* observation of a failure no higher.
C5_ScoreBounded ==
    /\ \A r \in ReputationRecords :
          MinScore <= r.reputation_score /\ r.reputation_score <= MaxScore
    /\ \A h \in Handlers :
          (Observing(h) /\ ObservedIndex(h) # 0) =>
             LET old == proc[h].ipReputationsRead[ObservedIndex(h)].reputation_score
                 new == proc[h].ipReputations[ObservedIndex(h)].reputation_score
             IN  IF proc[h].attempt_status = "SUCCESS" THEN new >= old ELSE new <= old

\* C5 witness: a failure observed for an address whose score is below the
\* penalty: the score is clamped at 0.
C5_Witness ==
    \E h \in Handlers :
        /\ Observing(h) /\ ObservedIndex(h) # 0
        /\ proc[h].attempt_status = "FAILURE"
        /\ proc[h].ipReputationsRead[ObservedIndex(h)].reputation_score < FailurePenalty
        /\ proc[h].ipReputations[ObservedIndex(h)].reputation_score = MinScore

\* C6: the first observation for an address without a record appends a
\* record with score 95 on success, 90 on failure, total_logins 1, the
\* counters split by the outcome, suspicious_activities 1 on failure and 0
\* on success, is_blocked false.
C6_FirstObservation ==
    \A h \in Handlers :
        (Observing(h) /\ ObservedIndex(h) = 0) =>
            LET success == proc[h].attempt_status = "SUCCESS"
                added == proc[h].ipReputations[Len(proc[h].ipReputations)]
            IN  proc[h].ipReputations =
                  Append(proc[h].ipReputationsRead,
                         [ip_address |-> proc[h].ipAddress,
                          reputation_score |-> IF success THEN 95 ELSE 90,
                          total_logins |-> 1,
                          failed_logins |-> IF success THEN 0 ELSE 1,
                          successful_logins |-> IF success THEN 1 ELSE 0,
                          suspicious_activities |-> IF success THEN 0 ELSE 1,
                          first_seen |-> added.first_seen,
                          last_seen |-> added.last_seen,
                          is_blocked |-> FALSE])

\* C6 witness: the record of a first, failed, observation is in the file and
\* the login is answered.
C6_Witness ==
    \E h \in Handlers :
        /\ Completed(h, "login") /\ proc[h].status = 401
        /\ \E i \in 1..Len(disk[IP_REPUTATION_FILE].data) :
              LET r == disk[IP_REPUTATION_FILE].data[i]
              IN  r.reputation_score = 90 /\ r.total_logins = 1 /\ r.failed_logins = 1

RECURSIVE MaxLogId(_)
MaxLogId(records) ==
    IF records = <<>> THEN 0
    ELSE Max(records[Len(records)].log_id, MaxLogId(SubSeq(records, 1, Len(records) - 1)))

\* The batch handler is past its loop.
BatchLooped(h) ==
    /\ proc[h].kind = "batch"
    /\ proc[h].pc \in {"writeOpen", "writeData"}

\* C7: a batch with k accepted events on a ledger whose maximum log_id is m
\* assigns the ids m+1, ..., m+k in input order.
C7_BatchIdsContiguous ==
    \A h \in Handlers :
        (BatchLooped(h) /\ faults = 0) =>
            \A k \in 1..proc[h].loggedCount :
                proc[h].eventLogs[Len(proc[h].eventLogsRead) + k].log_id
                    = MaxLogId(proc[h].eventLogsRead) + k

NullCount(events) == Cardinality({i \in 1..Len(events) : events[i].isNull})

\* C8: a batch processes its inputs independently: a null element is counted
\* in failedEvents and skipped, the others are logged, so eventsLogged +
\* failedEvents is the number of inputs, and the ledger the handler writes
\* back is the one it read plus exactly eventsLogged entries, one per
\* accepted input, in input order.
C8_BatchCounts ==
    \A h \in Handlers :
        /\ (proc[h].kind = "batch" /\ (BatchLooped(h) \/ Completed(h, "batch"))) =>
              /\ proc[h].failedCount = NullCount(proc[h].events)
              /\ proc[h].loggedCount + proc[h].failedCount = Len(proc[h].events)
        /\ BatchLooped(h) =>
              LET read == proc[h].eventLogsRead
                  new == SubSeq(proc[h].eventLogs, Len(read) + 1, Len(proc[h].eventLogs))
                  accepted == {i \in 1..Len(proc[h].events) : ~proc[h].events[i].isNull}
              IN  /\ Len(proc[h].eventLogs) = Len(read) + proc[h].loggedCount
                  /\ SubSeq(proc[h].eventLogs, 1, Len(read)) = read
                  /\ {new[k].item : k \in 1..Len(new)} = accepted
                  /\ \A k \in 1..Len(new) : new[k].rid = proc[h].rid
                  /\ \A j, k \in 1..Len(new) : j < k => new[j].item < new[k].item

\* C8 witness: a batch of 3 valid events and 1 null is answered with
\* eventsLogged 3 and failedEvents 1, and its 3 entries are in the ledger.
C8_Witness ==
    \E h \in Handlers :
        /\ Completed(h, "batch")
        /\ proc[h].loggedCount = 3 /\ proc[h].failedCount = 1
        /\ disk[EVENT_LOGS_FILE].ok
        /\ Cardinality({i \in 1..Len(disk[EVENT_LOGS_FILE].data) :
                           disk[EVENT_LOGS_FILE].data[i].rid = proc[h].rid}) = 3

\* C9: a request during which writeJSON failed is not answered with a
\* success status.
C9_WriteFailureSurfaced ==
    \A h \in Handlers :
        (proc[h].pc = "done" /\ proc[h].writeFailed) => proc[h].status \notin {200, 201}

\* C10: no load observes a partially written collection: while no file
\* operation fails, every read finds a file that parses.
C10_NoTornRead ==
    faults = 0 => \A h \in Handlers : ~proc[h].tornRead

----------------------------------------------------------------------------
\* The status a handler answers with when nothing is thrown.
NormalStatus(p) ==
    IF p.kind = "login"
    THEN (IF p.attempt_status = "SUCCESS" THEN 200 ELSE 401)
    ELSE 201

\* C11: a request whose read of a collection failed (the read raised an error
\* or the file did not parse) goes on as with an empty collection: no user is
\* found, the record it adds is the only one of its array and has id 1, the
\* address gets a first-observation record, no session is found; and the
\* request is answered with the status of its normal flow.
C11_ReadFailureAsEmpty ==
    \A h \in Handlers :
        LET p == proc[h]
            inFlight == p.pc \notin {"idle", "done"}
            result == IF p.attempt_status = "SUCCESS" THEN "success" ELSE "failure"
        IN  /\ USERS_FILE \in p.readFailed =>
                  p.attempt_status = "FAILURE" /\ p.user_id = NoUserId
            /\ (LOGIN_ATTEMPTS_FILE \in p.readFailed /\ inFlight) =>
                  /\ Len(p.loginAttempts) = 1
                  /\ p.loginAttempts[1].attempt_id = 1
                  /\ p.loginAttempts[1].rid = p.rid
            /\ (SESSIONS_FILE \in p.readFailed /\ inFlight) =>
                  IF p.kind = "login"
                  THEN Len(p.sessions) = 1 /\ p.sessions[1].rid = p.rid
                  ELSE /\ p.sessions = <<>>
                       /\ p.user_id = NoUserId
                       /\ \A i \in 1..Len(p.eventLogs) :
                            p.eventLogs[i].rid = p.rid => p.eventLogs[i].user_id = NoUserId
            /\ (EVENT_LOGS_FILE \in p.readFailed /\ inFlight) =>
                  /\ p.eventLogsRead = <<>>
                  /\ \A i \in 1..Len(p.eventLogs) : p.eventLogs[i].rid = p.rid
                  /\ p.eventLogs # <<>> => p.eventLogs[1].log_id = 1
            /\ (IP_REPUTATION_FILE \in p.readFailed /\ inFlight) =>
                  /\ p.ipReputationsRead = <<>>
                  /\ Len(p.ipReputations) = 1
                  /\ p.ipReputations[1] =
                        NewIPRecord(p.ipAddress, result, p.ipReputations[1].first_seen,
                                    p.ipReputations[1].last_seen)
            /\ (p.pc = "done" /\ p.readFailed # {}) => p.status = NormalStatus(p)

\* A login is answered 200 although its read of the attempts file failed.
C11_Witness ==
    \E h \in Handlers :
        /\ Completed(h, "login")
        /\ proc[h].status = 200
        /\ LOGIN_ATTEMPTS_FILE \in proc[h].readFailed

\* The records of file f that request rid added.
RecordsOf(f, rid) ==
    {disk[f].data[i] : i \in {j \in 1..Len(disk[f].data) : disk[f].data[j].rid = rid}}

\* C12: a request that lacks a required input (a login without username or
\* password, an event without sessionId or eventType, a batch without events)
\* is answered 400 and persists nothing: a request answered 400 has no record
\* in any file, a batch without events is answered 400, and the records of an
\* answered login or event request carry the required inputs.
C12_ValidationNotPersisted ==
    \A h \in Handlers :
        LET p == proc[h]
        IN  p.pc = "done" =>
              /\ p.status = 400 =>
                    \A f \in {LOGIN_ATTEMPTS_FILE, SESSIONS_FILE, EVENT_LOGS_FILE} :
                        RecordsOf(f, p.rid) = {}
              /\ (p.kind = "batch" /\ p.events = <<>>) => p.status = 400
              /\ p.kind = "login" =>
                    \A r \in RecordsOf(LOGIN_ATTEMPTS_FILE, p.rid) :
                        r.username # Undefined
              /\ p.kind = "event" =>
                    \A r \in RecordsOf(EVENT_LOGS_FILE, p.rid) :
                        r.session_id # Undefined /\ r.event_type # Undefined

\* The positions in file f of the records that request rid added.
PositionsOf(f, rid) == {i \in 1..Len(disk[f].data) : disk[f].data[i].rid = rid}

\* C13: a login creates at most one session, and only when it succeeds.
\* The sessions file never holds two sessions of one request, nor a session of
\* a request whose attempt did not succeed; a login that failed never reads
\* or writes the sessions file; a login that succeeded hands writeJSON the
\* array it read plus one active session with the id of the user it found;
\* and when requests are handled one at a time and no file operation fails,
\* the session of a login answered 200 is in the file.
C13_SessionOnlyOnSuccess ==
    /\ \A h \in Handlers :
          LET p == proc[h]
              mine == PositionsOf(SESSIONS_FILE, p.rid)
          IN  p.kind = "login" =>
                /\ Cardinality(mine) <= 1
                /\ p.attempt_status # "SUCCESS" =>
                      /\ mine = {}
                      /\ p.sessions = <<>>
                      /\ p.pc # "readSessions"
                      /\ p.wfile # SESSIONS_FILE
                /\ p.wfile = SESSIONS_FILE =>
                      /\ p.sessions # <<>>
                      /\ LET s == p.sessions[Len(p.sessions)]
                         IN  /\ s.session_id = p.sessionId
                             /\ s.user_id = p.user_id
                             /\ s.is_active
                             /\ s.rid = p.rid
                      /\ p.user_id # NoUserId
                      /\ \A i \in 1..(Len(p.sessions) - 1) : p.sessions[i].rid # p.rid
                /\ (p.pc = "done" /\ p.status = 200 /\ lim.handlers = 1 /\ faults = 0) =>
                      Cardinality(mine) = 1
    /\ \A i \in 1..Len(disk[SESSIONS_FILE].data) :
          LET s == disk[SESSIONS_FILE].data[i]
          IN  /\ s.is_active
              /\ s.user_id # NoUserId
              /\ \A a \in RecordsOf(LOGIN_ATTEMPTS_FILE, s.rid) :
                    a.attempt_status = "SUCCESS" /\ a.user_id = s.user_id

\* A login has been answered 200 and its session is the one in the file; a
\* login that failed was answered before it.
C13_Witness ==
    /\ Len(disk[SESSIONS_FILE].data) = 1
    /\ Len(disk[LOGIN_ATTEMPTS_FILE].data) = 2
    /\ disk[LOGIN_ATTEMPTS_FILE].data[1].attempt_status = "FAILURE"
    /\ \E h \in Handlers :
          /\ Completed(h, "login")
          /\ proc[h].status = 200
          /\ PositionsOf(SESSIONS_FILE, proc[h].rid) = {1}

\* C14: an event is attributed to the user of the session that was created
\* last among the active sessions with its session id (to no user when there
\* is none): while no file operation fails, every entry a request has added
\* to the event log carries that user id.
C14_LatestSessionWins ==
    faults = 0 =>
      \A i \in 1..Len(disk[EVENT_LOGS_FILE].data) :
          LET e == disk[EVENT_LOGS_FILE].data[i]
              sessions == disk[SESSIONS_FILE].data
              matching == {j \in 1..Len(sessions) :
                              /\ sessions[j].session_id = e.session_id
                              /\ sessions[j].is_active}
              latest == CHOOSE j \in matching : \A k \in matching : k <= j
          IN  e.rid > 0 =>
                e.user_id = IF matching = {} THEN NoUserId
                            ELSE sessions[latest].user_id

\* C15: session creation does not deduplicate by session_id.  The array a
\* login hands to writeJSON is the array it read, every record in place, plus
\* the new session at the end; and when logins are handled one at a time and
\* no file operation fails, the sessions file holds one session for every
\* successful attempt, in the order of the attempts.
C15_NoDeduplication ==
    /\ \A h \in Handlers :
          LET p == proc[h]
          IN  (p.kind = "login" /\ p.wfile = SESSIONS_FILE) =>
                /\ Len(p.sessions) = Len(p.sessionsRead) + 1
                /\ SubSeq(p.sessions, 1, Len(p.sessionsRead)) = p.sessionsRead
                /\ p.sessions[Len(p.sessions)].rid = p.rid
    /\ (lim.handlers = 1 /\ faults = 0 /\ \A h \in Handlers : Free(h)) =>
          LET attempts == disk[LOGIN_ATTEMPTS_FILE].data
              sessions == disk[SESSIONS_FILE].data
              succeeded == {i \in 1..Len(attempts) : attempts[i].attempt_status = "SUCCESS"}
          IN  /\ Len(sessions) = Cardinality(succeeded)
              /\ \A i \in succeeded : PositionsOf(SESSIONS_FILE, attempts[i].rid) # {}

\* Two logins with the same session id have succeeded, and the file holds
\* the session of each.
C15_Witness ==
    LET sessions == disk[SESSIONS_FILE].data
    IN  /\ \A h \in Handlers : Free(h)
        /\ Len(sessions) = 2
        /\ sessions[1].session_id = sessions[2].session_id
        /\ sessions[1].rid # sessions[2].rid

\* C16: for the same attempts and the same now, the attempts that the
\* statistics of the last hour include are among those the statistics of the
\* last 24 hours include, and each count, unique_ips and unique_users of the
\* answer to "1h" is at most that of the answer to "24h".
C16_HourWithinDay ==
    LET loginAttempts == disk[LOGIN_ATTEMPTS_FILE].data
    IN  /\ Recent(loginAttempts, Threshold(Now, "1h"))
              \subseteq Recent(loginAttempts, Threshold(Now, "24h"))
        /\ \A h \in Handlers :
              LET p == proc[h]
                  day == LoginStats(loginAttempts, "24h", p.now)
              IN  (p.pc = "done" /\ p.kind = "stats" /\ p.timeRange = "1h") =>
                    \A b \in {"SUCCESS", "FAILURE"} :
                        /\ p.stats[b].count <= day[b].count
                        /\ p.stats[b].unique_ips <= day[b].unique_ips
                        /\ p.stats[b].unique_users <= day[b].unique_users

\* The answer to "1h" counts one success where the answer to "24h" counts two.
C16_Witness ==
    \E h \in Handlers :
        /\ proc[h].pc = "done" /\ proc[h].kind = "stats"
        /\ proc[h].timeRange = "1h"
        /\ proc[h].stats["SUCCESS"].count = 1
        /\ LoginStats(disk[LOGIN_ATTEMPTS_FILE].data, "24h", proc[h].now)["SUCCESS"].count = 2

\* What the client of a request receives (the timestamp of the answer aside).
Response(p) ==
    [status |-> p.status, message |-> p.message,
     remainingAttempts |-> p.remainingAttempts, sessionToken |-> p.sessionToken,
     eventsLogged |-> p.loggedCount, failedEvents |-> p.failedCount]

FailedLogin(h) ==
    /\ proc[h].pc = "done"
    /\ proc[h].kind = "login"
    /\ proc[h].attempt_status = "FAILURE"

\* C17: a failed login is answered the same way whether the username is
\* unknown or the password is wrong: any two failed logins have received the
\* same answer, status 401 with message "Invalid credentials"; and of two
\* failed attempts in the file, one of a user that was found and one of a user
\* that was not, the failure_reason differs.
C17_FailureCauseHidden ==
    /\ \A g, h \in Handlers :
          (FailedLogin(g) /\ FailedLogin(h)) =>
             /\ Response(proc[g]) = Response(proc[h])
             /\ proc[h].status = 401
             /\ proc[h].message = "Invalid credentials"
    /\ LET attempts == disk[LOGIN_ATTEMPTS_FILE].data
       IN  \A i, j \in 1..Len(attempts) :
             (/\ attempts[i].attempt_status = "FAILURE"
              /\ attempts[j].attempt_status = "FAILURE"
              /\ attempts[i].user_id = NoUserId
              /\ attempts[j].user_id # NoUserId) =>
                attempts[i].failure_reason # attempts[j].failure_reason

\* Two logins have failed, one for an unknown username and one for a wrong
\* password, as the file tells; both have their answer.
C17_Witness ==
    \E g, h \in Handlers :
        /\ FailedLogin(g) /\ FailedLogin(h)
        /\ \E a \in RecordsOf(LOGIN_ATTEMPTS_FILE, proc[g].rid) :
              a.failure_reason = "user_not_found"
        /\ \E b \in RecordsOf(LOGIN_ATTEMPTS_FILE, proc[h].rid) :
              b.failure_reason = "invalid_password"

\* C18: on a server that has just been set up, a login with admin/admin123
\* succeeds.  A handler that has read the users file finds admin with that
\* password; and when the first request is such a login and no file operation
\* fails, it is answered 200 with a token of at least 32 hex characters, the
\* attempts file holds its one attempt, a SUCCESS, the sessions file its
\* session with that token, and the reputation file one record with
\* score 95, total_logins 1, successful_logins 1, failed_logins 0.
C18_FreshLoginSucceeds ==
    \A h \in Handlers :
        LET p == proc[h]
            attempts == disk[LOGIN_ATTEMPTS_FILE].data
            sessions == disk[SESSIONS_FILE].data
            reps == disk[IP_REPUTATION_FILE].data
        IN  /\ (/\ p.kind = "login"
                /\ p.pc \notin {"idle", "done", "readUsers"}
                /\ USERS_FILE \notin p.readFailed
                /\ p.username = "admin" /\ p.password = "admin123") =>
                  p.attempt_status = "SUCCESS" /\ p.user_id = 1
            /\ (/\ p.pc = "done" /\ p.kind = "login" /\ p.rid = 1
                /\ arrivals = 1 /\ faults = 0
                /\ p.attempt_status = "SUCCESS") =>
                  /\ p.status = 200
                  /\ p.sessionToken.hexChars >= 32
                  /\ Len(attempts) = 1
                  /\ attempts[1].attempt_status = "SUCCESS"
                  /\ attempts[1].rid = p.rid
                  /\ Len(sessions) = 1
                  /\ sessions[1].session_token = p.sessionToken
                  /\ Len(reps) = 1
                  /\ reps[1].reputation_score = 95
                  /\ reps[1].total_logins = 1
                  /\ reps[1].successful_logins = 1
                  /\ reps[1].failed_logins = 0

\* The first request, a login of admin, has been answered 200.
C18_Witness ==
    \E h \in Handlers :
        /\ Completed(h, "login")
        /\ proc[h].rid = 1 /\ arrivals = 1 /\ faults = 0
        /\ proc[h].status = 200
        /\ disk[LOGIN_ATTEMPTS_FILE].data[1].username = "admin"

\* C19: the attempt of a failed login has attempt_status FAILURE and
\* failure_reason "invalid_password" when the username exists and the
\* password is wrong, "user_not_found" when the username is unknown; the
\* attempt of a successful login has no failure_reason.  This holds of the
\* record a handler that has read the users file hands to writeJSON, and
\* every attempt in the file has the reason that goes with its status and
\* with whether it names a user.
C19_FailureReason ==
    /\ \A h \in Handlers :
          LET p == proc[h]
              known == {i \in 1..Len(initialUsers) : initialUsers[i].username = p.username}
              attempt == p.loginAttempts[Len(p.loginAttempts)]
          IN  (/\ p.kind = "login"
               /\ p.wfile = LOGIN_ATTEMPTS_FILE
               /\ USERS_FILE \notin p.readFailed) =>
                 /\ attempt.rid = p.rid
                 /\ known = {} =>
                       /\ attempt.attempt_status = "FAILURE"
                       /\ attempt.failure_reason = "user_not_found"
                 /\ \A i \in known :
                       IF initialUsers[i].password = p.password
                       THEN /\ attempt.attempt_status = "SUCCESS"
                            /\ attempt.failure_reason = Undefined
                       ELSE /\ attempt.attempt_status = "FAILURE"
                            /\ attempt.failure_reason = "invalid_password"
    /\ LET attempts == disk[LOGIN_ATTEMPTS_FILE].data
       IN  \A i \in 1..Len(attempts) :
             attempts[i].failure_reason =
                 IF attempts[i].attempt_status = "SUCCESS" THEN Undefined
                 ELSE IF attempts[i].user_id = NoUserId THEN "user_not_found"
                 ELSE "invalid_password"

\* The file holds the attempt of a login with a wrong password and the
\* attempt of a successful login.
C19_Witness ==
    LET attempts == disk[LOGIN_ATTEMPTS_FILE].data
    IN  /\ disk[LOGIN_ATTEMPTS_FILE].ok
        /\ \E i, j \in 1..Len(attempts) :
              /\ attempts[i].attempt_status = "FAILURE"
              /\ attempts[i].failure_reason = "invalid_password"
              /\ attempts[j].attempt_status = "SUCCESS"
              /\ attempts[j].failure_reason = Undefined

\* C20: an observation for an address that has a record adds 1 to its
\* total_logins; a success adds 1 to successful_logins and makes the score
\* min(score + 1, 100); a failure adds 1 to failed_logins and to
\* suspicious_activities and makes the score max(score - 5, 0); the other
\* records of the array stay as they are.  So the record of an address after
\* one login, failed, has score 90, and after two logins, both failed, 85.
C20_ObservationUpdates ==
    /\ \A h \in Handlers :
          (Observing(h) /\ ObservedIndex(h) # 0) =>
             LET i == ObservedIndex(h)
                 before == proc[h].ipReputationsRead
                 after == proc[h].ipReputations
                 old == before[i]
             IN  /\ Len(after) = Len(before)
                 /\ \A j \in 1..Len(before) : j # i => after[j] = before[j]
                 /\ after[i] =
                      IF proc[h].attempt_status = "SUCCESS"
                      THEN [old EXCEPT
                              !.last_seen = after[i].last_seen,
                              !.total_logins = @ + 1,
                              !.successful_logins = @ + 1,
                              !.reputation_score = IF @ + 1 < 100 THEN @ + 1 ELSE 100]
                      ELSE [old EXCEPT
                              !.last_seen = after[i].last_seen,
                              !.total_logins = @ + 1,
                              !.failed_logins = @ + 1,
                              !.suspicious_activities = @ + 1,
                              !.reputation_score = IF @ - 5 > 0 THEN @ - 5 ELSE 0]
    /\ \A r \in ReputationRecords :
          /\ (r.total_logins = 1 /\ r.failed_logins = 1) => r.reputation_score = 90
          /\ (r.total_logins = 2 /\ r.failed_logins = 2) => r.reputation_score = 85

\* Two logins from one address have failed and been answered: the file holds
\* its record with score 85.
C20_Witness ==
    /\ \A h \in Handlers : Free(h)
    /\ disk[IP_REPUTATION_FILE].ok
    /\ \E i \in 1..Len(disk[IP_REPUTATION_FILE].data) :
          LET r == disk[IP_REPUTATION_FILE].data[i]
          IN  /\ r.total_logins = 2 /\ r.failed_logins = 2
              /\ r.suspicious_activities = 2
              /\ r.reputation_score = 85

\* The reputation file has a record of the address.
HasRecord(ipAddress) ==
    \E i \in 1..Len(disk[IP_REPUTATION_FILE].data) :
        disk[IP_REPUTATION_FILE].data[i].ip_address = ipAddress

\* C21: reputation records are never deleted: an address that has a record
\* in the reputation file has one after every step.
C21_RecordsNeverDeleted ==
    [][\A a \in Addresses : HasRecord(a) => HasRecord(a)']_vars

\* first_seen of the record of the address in the reputation file
FirstSeen(ipAddress) ==
    disk[IP_REPUTATION_FILE].data[findIndex(disk[IP_REPUTATION_FILE].data, ipAddress)].first_seen

\* C22: every record in the reputation file has first_seen <= last_seen; the
\* first_seen of an address that has a record is the same after every step;
\* and an observation leaves in last_seen the time it read.
C22_FirstSeenFixed ==
    /\ [](\A i \in 1..Len(disk[IP_REPUTATION_FILE].data) :
            disk[IP_REPUTATION_FILE].data[i].first_seen
                <= disk[IP_REPUTATION_FILE].data[i].last_seen)
    /\ [](\A h \in Handlers :
            Observing(h) =>
               LET i == findIndex(proc[h].ipReputations, proc[h].ipAddress)
               IN  /\ i # 0
                   /\ proc[h].ipReputations[i].last_seen >= proc[h].now
                   /\ proc[h].ipReputations[i].last_seen <= clock)
    /\ [][\A a \in Addresses :
            (HasRecord(a) /\ HasRecord(a)') => FirstSeen(a)' = FirstSeen(a)]_vars

\* C23: the attempts file is append-only and its records immutable: at every
\* step, the records it held are the first records it holds, unchanged.
C23_AttemptsAppendOnly ==
    [][LET before == disk[LOGIN_ATTEMPTS_FILE].data
           after == disk[LOGIN_ATTEMPTS_FILE].data'
       IN  /\ Len(before) <= Len(after)
           /\ SubSeq(after, 1, Len(before)) = before]_vars

\* The largest attempt_id of an array of attempts, 0 when it is empty.
MaxAttemptId(attempts) ==
    IF attempts = <<>> THEN 0
    ELSE CHOOSE m \in {attempts[i].attempt_id : i \in 1..Len(attempts)} :
             \A i \in 1..Len(attempts) : attempts[i].attempt_id <= m

\* C24: the attempt a login records is put at the end of the array the
\* handler read, with attempt_id the largest attempt_id of that array plus 1,
\* or 1 when the array is empty.
C24_AttemptIdIsMaxPlusOne ==
    \A h \in Handlers :
        LET p == proc[h]
            n == Len(p.loginAttemptsRead)
        IN  (p.kind = "login" /\ p.wfile = LOGIN_ATTEMPTS_FILE) =>
              /\ Len(p.loginAttempts) = n + 1
              /\ SubSeq(p.loginAttempts, 1, n) = p.loginAttemptsRead
              /\ p.loginAttempts[n + 1].rid = p.rid
              /\ p.loginAttempts[n + 1].attempt_id =
                    IF n = 0 THEN 1 ELSE MaxAttemptId(p.loginAttemptsRead) + 1

\* A login is recording the attempt with attempt_id 2, after the attempt
\* with attempt_id 1 that it read.
C24_Witness ==
    \E h \in Handlers :
        /\ proc[h].wfile = LOGIN_ATTEMPTS_FILE
        /\ Len(proc[h].loginAttemptsRead) = 1
        /\ proc[h].loginAttempts[2].attempt_id = 2

\* A login-stats request that has been answered.
StatsDone(p) == p.pc = "done" /\ p.kind = "stats"

\* The hours the statement gives each time range.
ClaimedHours(timeRange) ==
    IF timeRange = "1h" THEN 1
    ELSE IF timeRange = "7d" THEN 168
    ELSE 24

\* C25: the statistics of a time range cover exactly the attempts made
\* strictly after now minus 1 hour for 1h, 24 hours for 24h, 168 hours for 7d
\* and 24 hours for an absent or unlisted range; an attempt made exactly at
\* now minus the duration is left out.
C25_StrictWindow ==
    \A h \in Handlers :
        LET p == proc[h]
            loginAttempts == p.loginAttemptsRead
            start == p.now - ClaimedHours(p.timeRange) * 3600000
        IN  StatsDone(p) =>
              /\ LOGIN_ATTEMPTS_FILE \notin p.readFailed =>
                    loginAttempts = disk[LOGIN_ATTEMPTS_FILE].data
              /\ \A i \in 1..Len(loginAttempts) :
                    /\ i \in p.recentAttempts <=> loginAttempts[i].timestamp > start
                    /\ loginAttempts[i].timestamp = start => i \notin p.recentAttempts
              /\ p.recentAttempts \subseteq 1..Len(loginAttempts)
              /\ p.stats["SUCCESS"].count + p.stats["FAILURE"].count
                    = Cardinality({i \in 1..Len(loginAttempts) : loginAttempts[i].timestamp > start})

\* The statistics of the last hour were answered over an attempt made exactly
\* an hour ago, which is left out, and one made a millisecond later, which is
\* counted.
C25_Witness ==
    \E h \in Handlers :
        /\ StatsDone(proc[h]) /\ proc[h].timeRange = "1h"
        /\ Len(proc[h].loginAttemptsRead) = 2
        /\ proc[h].loginAttemptsRead[1].timestamp = proc[h].now - 3600000
        /\ proc[h].loginAttemptsRead[2].timestamp = proc[h].now - 3600000 + 1
        /\ proc[h].recentAttempts = {2}
        /\ proc[h].stats["SUCCESS"].count + proc[h].stats["FAILURE"].count = 1

\* C26: each bucket of the statistics reports the number of filtered
\* attempts with its status and the numbers of distinct addresses and
\* usernames among those attempts only; an address that both succeeded and
\* failed counts once in each bucket, and the two counts add up to the size of
\* the filtered set.
C26_BucketsIndependent ==
    \A h \in Handlers :
        LET p == proc[h]
            a == p.loginAttemptsRead
            in(b) == {i \in p.recentAttempts : a[i].attempt_status = b}
        IN  StatsDone(p) =>
              /\ \A b \in {"SUCCESS", "FAILURE"} :
                    /\ p.stats[b].count = Cardinality(in(b))
                    /\ p.stats[b].unique_ips
                          = Cardinality({ip \in Addresses : \E i \in in(b) : a[i].ip_address = ip})
                    /\ p.stats[b].unique_users
                          = Cardinality({u \in Usernames : \E i \in in(b) : a[i].username = u})
              /\ \A ip \in Addresses :
                    (\E i \in in("SUCCESS"), j \in in("FAILURE") :
                        a[i].ip_address = ip /\ a[j].ip_address = ip)
                    => p.stats["SUCCESS"].unique_ips >= 1 /\ p.stats["FAILURE"].unique_ips >= 1
              /\ p.stats["SUCCESS"].count + p.stats["FAILURE"].count
                    = Cardinality(p.recentAttempts)

\* One address succeeded once and failed once under two usernames within
\* the window: each bucket reports one attempt, one address and one username.
C26_Witness ==
    \E h \in Handlers :
        LET p == proc[h]
        IN  /\ StatsDone(p) /\ p.recentAttempts = {1, 2}
            /\ p.loginAttemptsRead[1].ip_address = p.loginAttemptsRead[2].ip_address
            /\ p.loginAttemptsRead[1].username # p.loginAttemptsRead[2].username
            /\ p.loginAttemptsRead[1].attempt_status = "FAILURE"
            /\ p.loginAttemptsRead[2].attempt_status = "SUCCESS"
            /\ p.stats["SUCCESS"] = [count |-> 1, unique_ips |-> 1, unique_users |-> 1]
            /\ p.stats["FAILURE"] = [count |-> 1, unique_ips |-> 1, unique_users |-> 1]

\* The login of handler h is past the write of its attempt: it is creating
\* its session or updating the reputation of its address.
PastAttempt(p) ==
    /\ p.kind = "login"
    /\ \/ p.pc \in {"readSessions", "readReputation"}
       \/ p.wfile \in {SESSIONS_FILE, IP_REPUTATION_FILE}
       \/ p.issued \cap {SESSIONS_FILE, IP_REPUTATION_FILE} # {}

\* C27: within one login the write of the attempt is issued, and has
\* returned, before the session is created and before the reputation is
\* written; when logins run one at a time and no file operation fails, a
\* session in the file, or a reputation write under way, has its attempt in
\* the file.
C27_AttemptFirst ==
    /\ \A h \in Handlers :
          LET p == proc[h]
          IN  /\ PastAttempt(p) =>
                    /\ LOGIN_ATTEMPTS_FILE \in p.issued
                    /\ p.wfile # LOGIN_ATTEMPTS_FILE
                    /\ p.loginAttempts # <<>>
                    /\ p.loginAttempts[Len(p.loginAttempts)].rid = p.rid
              /\ (p.kind = "login" /\ p.wfile = LOGIN_ATTEMPTS_FILE) =>
                    /\ p.issued = {LOGIN_ATTEMPTS_FILE}
                    /\ p.sessions = <<>>
              /\ (PastAttempt(p) /\ lim.handlers = 1 /\ faults = 0) =>
                    Holds(LOGIN_ATTEMPTS_FILE, p.rid)
    /\ (lim.handlers = 1 /\ faults = 0) =>
          \A i \in 1..Len(disk[SESSIONS_FILE].data) :
              Holds(LOGIN_ATTEMPTS_FILE, disk[SESSIONS_FILE].data[i].rid)

\* A successful login has its attempt in the file and has not created its
\* session yet: stopped here, it leaves an attempt without session.
C27_Witness ==
    \E h \in Handlers :
        /\ proc[h].kind = "login" /\ proc[h].pc = "readSessions"
        /\ Holds(LOGIN_ATTEMPTS_FILE, proc[h].rid)
        /\ ~Holds(SESSIONS_FILE, proc[h].rid)
        /\ IP_REPUTATION_FILE \notin proc[h].issued

ReadKinds == {"stats", "lookup", "export"}

\* The step is one of a read endpoint: a request of a read kind is taken or
\* goes on.
ReadEndpointStep ==
    \E h \in Handlers :
        /\ proc[h]' # proc[h]
        /\ proc[h]'.kind \in ReadKinds

\* The lookup of handler h is answered in this step.
LookupAnswered(h) ==
    /\ proc[h].pc = "readLookup"
    /\ proc[h]'.pc = "done"

\* C28: the read endpoints change no collection, and the lookup of an
\* address answers not-found exactly when no reputation record of the address
\* has been stored.
C28_ReadsOnly ==
    [][/\ ReadEndpointStep => disk' = disk
       /\ \A h \in Handlers :
             LookupAnswered(h) =>
                 (proc[h]'.status = 404 <=> ~HasRecord(proc[h].ipAddress))]_vars

\* C29: no reputation record is ever blocked, whatever the outcomes observed
\* and however low its score.
C29_NeverBlocked ==
    /\ \A r \in ReputationRecords : r.is_blocked = FALSE
    /\ \A h \in Handlers :
          \A i \in 1..Len(proc[h].ipReputationsRead) :
              proc[h].ipReputationsRead[i].is_blocked = FALSE

\* A failure has been observed of an address whose score was at the floor
\* already: its record stays at score 0, unblocked.
C29_Witness ==
    \E h \in Handlers :
        /\ Observing(h) /\ ObservedIndex(h) # 0
        /\ proc[h].attempt_status = "FAILURE"
        /\ proc[h].ipReputationsRead[ObservedIndex(h)].reputation_score = MinScore
        /\ proc[h].ipReputations[ObservedIndex(h)].reputation_score = MinScore
        /\ proc[h].ipReputations[ObservedIndex(h)].is_blocked = FALSE

\* The handler has taken a request and has not answered it yet.
InFlight(h) == proc[h].pc \notin {"idle", "done"}

\* C30: every request that was taken is answered, however the steps of the
\* other requests fall between its own: a handler in flight can always take
\* its next step, it reaches its answer, and a write that has opened its file
\* ends with its data in the file unless the file system fails it.
C30_EveryRequestAnswered ==
    /\ [](\A h \in Handlers : InFlight(h) => ENABLED <<Resume(h)>>_vars)
    /\ \A h \in Handlers : InFlight(h) ~> (proc[h].pc = "done")
    /\ [][\A h \in Handlers :
            (proc[h].pc = "writeData" /\ proc[h]'.pc # "writeData") =>
               \/ disk'[proc[h].wfile] = Landed(proc[h].wfile, WriteData(proc[h]))
               \/ proc[h]'.writeFailed]_vars

\* The second request has been answered while the first, taken before it,
\* is in the middle of a write.
C30_Witness ==
    /\ proc[1].pc = "writeData"
    /\ proc[2].pc = "done"
    /\ proc[2].rid > proc[1].rid

\* No two records of the array are of the same address.
OnePerAddress(ipReputations) ==
    \A i, j \in 1..Len(ipReputations) :
        ipReputations[i].ip_address = ipReputations[j].ip_address => i = j

\* C31: the reputation file holds at most one record per address, and so
\* does every array a login has read from it or is writing to it, however
\* the logins overlap.
C31_OneRecordPerAddress ==
    /\ OnePerAddress(disk[IP_REPUTATION_FILE].data)
    /\ \A h \in Handlers :
          /\ OnePerAddress(proc[h].ipReputationsRead)
          /\ OnePerAddress(proc[h].ipReputations)

\* Two logins of one address overlap: the second found no record and is
\* writing one, the first has stored its own meanwhile; the file holds one.
C31_Witness ==
    /\ Observing(2)
    /\ proc[2].ipReputationsRead = <<>>
    /\ proc[1].kind = "login" /\ proc[1].rid < proc[2].rid
    /\ Len(disk[IP_REPUTATION_FILE].data) = 1
    /\ HasRecord(proc[2].ipAddress)
    /\ disk[IP_REPUTATION_FILE].data[1].total_logins = 1

\* The number of stored attempts of an address with one of the given outcomes.
AttemptsOf(ipAddress, statuses) ==
    Cardinality({i \in 1..Len(disk[LOGIN_ATTEMPTS_FILE].data) :
                    /\ disk[LOGIN_ATTEMPTS_FILE].data[i].ip_address = ipAddress
                    /\ disk[LOGIN_ATTEMPTS_FILE].data[i].attempt_status \in statuses})

\* No request is being handled.
Quiet == \A h \in Handlers : Free(h)

\* C32: with logins handled one at a time and no file operation failing,
\* between logins the record of every address counts its stored attempts:
\* total_logins all of them, successful_logins the SUCCESS ones, failed_logins
\* the FAILURE ones; an address has a record exactly when it has attempts, and
\* there are as many sessions as SUCCESS attempts.
C32_CountersMatchAttempts ==
    (lim.handlers = 1 /\ faults = 0 /\ Quiet) =>
        LET ipReputations == disk[IP_REPUTATION_FILE].data
        IN  /\ \A a \in Addresses :
                  LET i == findIndex(ipReputations, a)
                  IN  IF i = 0
                      THEN AttemptsOf(a, {"SUCCESS", "FAILURE"}) = 0
                      ELSE /\ ipReputations[i].total_logins = AttemptsOf(a, {"SUCCESS", "FAILURE"})
                           /\ ipReputations[i].successful_logins = AttemptsOf(a, {"SUCCESS"})
                           /\ ipReputations[i].failed_logins = AttemptsOf(a, {"FAILURE"})
            /\ Len(disk[SESSIONS_FILE].data)
                  = Cardinality({i \in 1..Len(disk[LOGIN_ATTEMPTS_FILE].data) :
                                    disk[LOGIN_ATTEMPTS_FILE].data[i].attempt_status = "SUCCESS"})

\* Two logins of one address have been handled, one after the other, a
\* failure and a success: its record counts two logins, one of each outcome,
\* and there is one session.
C32_Witness ==
    /\ lim.handlers = 1 /\ faults = 0 /\ Quiet
    /\ Len(disk[LOGIN_ATTEMPTS_FILE].data) = 2
    /\ Len(disk[IP_REPUTATION_FILE].data) = 1
    /\ disk[IP_REPUTATION_FILE].data[1].total_logins = 2
    /\ disk[IP_REPUTATION_FILE].data[1].successful_logins = 1
    /\ disk[IP_REPUTATION_FILE].data[1].failed_logins = 1
    /\ Len(disk[SESSIONS_FILE].data) = 1

\* The file a request appends to, and the array the handler builds for it.
Appended(p) == IF p.kind = "login" THEN p.loginAttempts ELSE p.eventLogs

\* The handler has its answer from the write of the file it appends to, and
\* no write of the request has failed.
Written(p) ==
    /\ ~p.writeFailed
    /\ IF p.kind = "login"
       THEN PastAttempt(p) \/ (p.pc = "done" /\ p.status \in {200, 401})
       ELSE p.pc = "done" /\ p.status = 201

\* C33: a login, event or batch request whose read of the collection it
\* appends to has failed goes on to write the collection: the array it
\* writes holds its own records only, the first numbered 1 (one record for a
\* login or a single event), and once the write has returned, requests being
\* handled one at a time, the file holds these records and nothing of what
\* it held before.
C33_ReadFailureWipes ==
    \A h \in Handlers :
        LET p == proc[h]
            f == Ledger(p.kind)
            stored == disk[f].data
        IN  (p.kind \in {"login", "event", "batch"} /\ f \in p.readFailed) =>
              /\ (InFlight(h) /\ ~(p.kind = "batch" /\ p.pc = "readSessions")) =>
                    /\ f \in p.issued
                    /\ \A i \in 1..Len(Appended(p)) : Appended(p)[i].rid = p.rid
                    /\ p.kind \in {"login", "event"} => Len(Appended(p)) = 1
                    /\ p.kind = "batch" => Len(Appended(p)) = p.loggedCount
                    /\ Appended(p) # <<>> =>
                          IF p.kind = "login" THEN Appended(p)[1].attempt_id = 1
                          ELSE Appended(p)[1].log_id = 1
              /\ (lim.handlers = 1 /\ Written(p)) =>
                    /\ disk[f].ok
                    /\ \A i \in 1..Len(stored) : stored[i].rid = p.rid
                    /\ p.kind \in {"login", "event"} => Len(stored) = 1
                    /\ p.kind \in {"event", "batch"} => Len(stored) = p.loggedCount
                    /\ stored # <<>> =>
                          IF p.kind = "login" THEN stored[1].attempt_id = 1
                          ELSE stored[1].log_id = 1

\* The second request of a run has failed to read the file that holds the
\* record of the first, and is writing it: the file has been opened over the
\* record of the first, the array being written holds the record of the
\* second alone, numbered 1.
C33_Witness ==
    \E h \in Handlers :
        LET p == proc[h]
            f == Ledger(p.kind)
        IN  /\ p.kind \in {"login", "event"} /\ p.rid = 2
            /\ f \in p.readFailed
            /\ p.pc = "writeData" /\ p.wfile = f
            /\ Len(disk[f].data) = 1 /\ disk[f].data[1].rid = 1
            /\ Len(Appended(p)) = 1 /\ Appended(p)[1].rid = 2

====
